---- MODULE Spec2Model ----
(***************************************************************************)
(* The line diff engine of the Diff tool (src/src/tools/diff.tsx).         *)
(*                                                                         *)
(* A text is a sequence of characters; a line is a sequence of characters  *)
(* without the newline.  DiffEngine's constructor splits both texts on     *)
(* "\n", buildLineDiff fills the LCS table, collectOps backtracks through  *)
(* it and toRows turns the operations into display rows.  A row is the     *)
(* object literal the code pushes: the fields leftNumber / rightNumber are *)
(* simply not there when the code does not write them.                     *)
(***************************************************************************)
EXTENDS Integers, Sequences, FiniteSets, TLC

VARIABLES leftText, rightText, phase, leftLines, rightLines, dp, ops, rows,
          leftLine, rightLine, leftWords, rightWords, wordDiff,
          curI, curJ, iter, reads,
          onlyChanges, showWordDiff, clearState, timers, allRows, diffRows,
          pathA, pathB, idA, idB,
          platform, fieldDef, part, hashSeed, validation, resolvedPart,
          loopI, loopStep, loopEnd, vals, allValues, scanI, results

\* buildWordDiff: its two arguments, its word lists and what it returns
wordVars == <<leftLine, rightLine, leftWords, rightWords, wordDiff>>

\* a backtracking loop under way: its cursors i and j, the iterations done
\* and the table cells the last iteration read
stepVars == <<curI, curJ, iter, reads>>

\* the state of DiffPage besides the two texts, and its two memoised values
pageVars == <<onlyChanges, showWordDiff, clearState, timers, allRows, diffRows>>

\* the JSON viewer: two paths of one tree and the ids pathToId gives them
viewerVars == <<pathA, pathB, idA, idB>>

\* the cron tool: the platform, one field of the expression with its
\* definition, the hash seed, the verdict of validateExpression, the field
\* after resolveJenkinsH, the expansion loop of parseField and the scan
cronVars == <<platform, fieldDef, part, hashSeed, validation, resolvedPart,
              loopI, loopStep, loopEnd, vals, allValues, scanI, results>>

\* the tools other than the diff tool
toolVars == <<viewerVars, cronVars>>

vars == <<leftText, rightText, phase, leftLines, rightLines, dp, ops, rows,
          wordVars, stepVars, pageVars, toolVars>>

----------------------------------------------------------------------------
(* Bounds of the model *)

\* longest input text, in characters
MaxLen == 4

\* the longest text typed into a text area of the page
PageMaxLen == 3

\* the most timers of Clear that are pending at once
MaxTimers == 2

\* the longest text, and the longest line, given to a loop that is followed
\* one iteration at a time
StepMaxLen == 3

\* the longest object key, the longest path and the largest array index of
\* the JSON viewer
SegMaxLen == 2

PathMaxLen == 2

MaxIndex == 1

\* the scan of getNextExecutions is cut after MaxIterations minutes; the
\* source's 525960 is scaled down, above NextCount so that both ends of the scan
\* happen
MaxIterations == 6

\* the largest hash seed typed into the number input, past its max of 59
MaxSeed == 61

\* the count that nextExecutions asks for
NextCount == 5

\* useState(7): the hash seed of a fresh page
DefaultSeed == 7

\* the characters a text is made of: two letters and the newline
NL == "\n"
Chars == {"a", "b", NL}

Texts == UNION {[1..n -> Chars] : n \in 0..MaxLen}

----------------------------------------------------------------------------
(* String.prototype.split("\n") *)

HasNL(s) == \E k \in 1..Len(s) : s[k] = NL

FirstNL(s) == CHOOSE k \in 1..Len(s) : s[k] = NL /\ \A h \in 1..(k - 1) : s[h] # NL

\* a split that gives the empty text no line at all
RECURSIVE SplitNoEmptyLine(_)
SplitNoEmptyLine(s) ==
  IF s = <<>> THEN <<>>
  ELSE IF ~HasNL(s) THEN <<s>>
  ELSE <<SubSeq(s, 1, FirstNL(s) - 1)>> \o SplitNoEmptyLine(SubSeq(s, FirstNL(s) + 1, Len(s)))

RECURSIVE Split(_)
Split(s) ==
  IF ~HasNL(s) THEN <<s>>
  ELSE <<SubSeq(s, 1, FirstNL(s) - 1)>> \o Split(SubSeq(s, FirstNL(s) + 1, Len(s)))

----------------------------------------------------------------------------
(* buildLineDiff: the table fill *)

Max(a, b) == IF a >= b THEN a ELSE b

\* Array.from({length: m + 1}, () => Array(n + 1).fill(0))
ZeroTable(m, n) == [i \in 0..m |-> [j \in 0..n |-> 0]]

\* a fill that copies the diagonal cell without adding the matched line
CellNoIncrement(ll, rl, prev, row, i, j) ==
  IF ll[i] = rl[j] THEN prev[j - 1] ELSE Max(prev[j], row[j - 1])

\* a fill that forgets the cell above when the lines differ
CellLeftOnly(ll, rl, prev, row, i, j) ==
  IF ll[i] = rl[j] THEN prev[j - 1] + 1 ELSE row[j - 1]

\* the body of the inner loop: the value written to dp[i][j]
Cell(ll, rl, prev, row, i, j) ==
  IF ll[i] = rl[j] THEN prev[j - 1] + 1 ELSE Max(prev[j], row[j - 1])

RECURSIVE FillCols(_, _, _, _, _, _)
FillCols(ll, rl, prev, row, i, j) ==
  IF j > Len(rl) THEN row
  ELSE FillCols(ll, rl, prev, [row EXCEPT ![j] = Cell(ll, rl, prev, row, i, j)], i, j + 1)

RECURSIVE FillRows(_, _, _, _)
FillRows(ll, rl, table, i) ==
  IF i > Len(ll) THEN table
  ELSE FillRows(ll, rl,
                [table EXCEPT ![i] = FillCols(ll, rl, table[i - 1], table[i], i, 1)],
                i + 1)

FillDp(ll, rl) == FillRows(ll, rl, ZeroTable(Len(ll), Len(rl)), 1)

----------------------------------------------------------------------------
(* collectOps: the backtrack from (m, n) *)

Op(type, line) == [type |-> type, line |-> line]

\* a collectOps that returns ops without reversing it
ReverseForgotten(s) == s

RECURSIVE Reverse(_)
Reverse(s) == IF s = <<>> THEN <<>> ELSE Append(Reverse(Tail(s)), Head(s))

\* a first branch that is not taken on the first line of a side
IsSameStepPastFirst(ll, rl, i, j) == i > 1 /\ j > 1 /\ ll[i] = rl[j]

\* the first branch of the loop: both lines are there and equal
IsSameStep(ll, rl, i, j) == i > 0 /\ j > 0 /\ ll[i] = rl[j]

\* a tie between the two neighbours taken as removed
IsAddedStepStrict(table, i, j) == j > 0 /\ (i = 0 \/ table[i][j - 1] > table[i - 1][j])

\* the two neighbours compared the wrong way round
IsAddedStepSwapped(table, i, j) == j > 0 /\ (i = 0 \/ table[i][j - 1] <= table[i - 1][j])

\* a backtrack that takes the right line whenever there is one
IsAddedStepNoTable(table, i, j) == j > 0

\* the second branch: the step is taken as an added line
IsAddedStep(table, i, j) == j > 0 /\ (i = 0 \/ table[i][j - 1] >= table[i - 1][j])

RECURSIVE CollectLoop(_, _, _, _, _, _)
CollectLoop(ll, rl, table, acc, i, j) ==
  IF ~(i > 0 \/ j > 0) THEN acc
  ELSE IF IsSameStep(ll, rl, i, j)
    THEN CollectLoop(ll, rl, table, Append(acc, Op("same", ll[i])), i - 1, j - 1)
  ELSE IF IsAddedStep(table, i, j)
    THEN CollectLoop(ll, rl, table, Append(acc, Op("added", rl[j])), i, j - 1)
  ELSE IF i > 0
    THEN CollectLoop(ll, rl, table, Append(acc, Op("removed", ll[i])), i - 1, j)
  \* no branch taken: the while loop runs again on the same i and j
  ELSE CollectLoop(ll, rl, table, acc, i, j)

CollectOps(ll, rl, table) == Reverse(CollectLoop(ll, rl, table, <<>>, Len(ll), Len(rl)))

----------------------------------------------------------------------------
(* toRows: the pairing pass and the line numbers *)

\* a merge only when the added operation is the only one that follows
IsChangedPairLoneAdded(opsq, index) ==
  /\ opsq[index].type = "removed"
  /\ index + 1 <= Len(opsq)
  /\ opsq[index + 1].type = "added"
  /\ ~(index + 2 <= Len(opsq) /\ opsq[index + 2].type = "added")

\* a merge only for the removed operation that starts its run
IsChangedPairRunStart(opsq, index) ==
  /\ opsq[index].type = "removed"
  /\ index + 1 <= Len(opsq)
  /\ opsq[index + 1].type = "added"
  /\ ~(index > 1 /\ opsq[index - 1].type = "removed")

\* op.type === "removed" && next?.type === "added"
IsChangedPair(opsq, index) ==
  /\ opsq[index].type = "removed"
  /\ index + 1 <= Len(opsq)
  /\ opsq[index + 1].type = "added"

\* a changed row with its two lines on the wrong sides
ChangedRowSidesSwapped(op, next, leftNo, rightNo) ==
  [left |-> next.line, right |-> op.line, status |-> "changed",
   leftNumber |-> leftNo, rightNumber |-> rightNo]

\* a changed row numbered on both sides from the left counter
ChangedRowOneCounter(op, next, leftNo, rightNo) ==
  [left |-> op.line, right |-> next.line, status |-> "changed",
   leftNumber |-> leftNo, rightNumber |-> leftNo]

ChangedRow(op, next, leftNo, rightNo) ==
  [left |-> op.line, right |-> next.line, status |-> "changed",
   leftNumber |-> leftNo, rightNumber |-> rightNo]

\* a same row that leaves out the right side
SameRowLeftOnly(op, leftNo, rightNo) ==
  [left |-> op.line, right |-> <<>>, status |-> "same", leftNumber |-> leftNo]

SameRow(op, leftNo, rightNo) ==
  [left |-> op.line, right |-> op.line, status |-> "same",
   leftNumber |-> leftNo, rightNumber |-> rightNo]

RemovedRow(op, leftNo) ==
  [left |-> op.line, right |-> <<>>, status |-> "removed", leftNumber |-> leftNo]

\* an added row that also writes a left number
AddedRowNumbered(op, rightNo) ==
  [left |-> <<>>, right |-> op.line, status |-> "added",
   leftNumber |-> rightNo, rightNumber |-> rightNo]

AddedRow(op, rightNo) ==
  [left |-> <<>>, right |-> op.line, status |-> "added", rightNumber |-> rightNo]

\* a merge that does not skip the added operation it has consumed
AfterPairNoSkip(index) == index + 1

\* the loop variable after a merge: index += 1, then the loop's own index += 1
AfterPair(index) == index + 2

RECURSIVE RowsLoop(_, _, _, _, _)
RowsLoop(opsq, acc, index, leftNo, rightNo) ==
  IF index > Len(opsq) THEN acc
  ELSE IF IsChangedPair(opsq, index)
    THEN RowsLoop(opsq, Append(acc, ChangedRow(opsq[index], opsq[index + 1], leftNo, rightNo)),
                  AfterPair(index), leftNo + 1, rightNo + 1)
  ELSE IF opsq[index].type = "same"
    THEN RowsLoop(opsq, Append(acc, SameRow(opsq[index], leftNo, rightNo)),
                  index + 1, leftNo + 1, rightNo + 1)
  ELSE IF opsq[index].type = "removed"
    THEN RowsLoop(opsq, Append(acc, RemovedRow(opsq[index], leftNo)),
                  index + 1, leftNo + 1, rightNo)
  ELSE RowsLoop(opsq, Append(acc, AddedRow(opsq[index], rightNo)),
                index + 1, leftNo, rightNo + 1)

ToRows(opsq) == RowsLoop(opsq, <<>>, 1, 1, 1)

\* new DiffEngine(l, r).buildLineDiff()
LineDiff(l, r) == ToRows(CollectOps(Split(l), Split(r), FillDp(Split(l), Split(r))))

----------------------------------------------------------------------------
(* buildWordDiff: the words of a line, their alignment, and the rendering *)

\* the characters of the lines given to buildWordDiff: two letters and a space
WordChars == {"a", "b", " "}

WordTexts == UNION {[1..n -> WordChars] : n \in 0..MaxLen}

\* the characters that \s matches and trim() removes
WhiteSpace == {" ", "\t", NL}

IsSpace(c) == c \in WhiteSpace

\* the length of the match of /^\s*/
LeadLen(s) ==
  CHOOSE n \in 0..Len(s) :
    /\ \A k \in 1..n : IsSpace(s[k])
    /\ n = Len(s) \/ ~IsSpace(s[n + 1])

\* a match of /^\s?/: one whitespace character at most
LeadingOne(s) == IF Len(s) > 0 /\ IsSpace(s[1]) THEN <<s[1]>> ELSE <<>>

\* line.match(/^\s*/)?.[0] ?? ""
Leading(s) == SubSeq(s, 1, LeadLen(s))

\* the length of the whitespace run that ends s
TrailLen(s) ==
  CHOOSE n \in 0..Len(s) :
    /\ \A k \in (Len(s) - n + 1)..Len(s) : IsSpace(s[k])
    /\ n = Len(s) \/ ~IsSpace(s[Len(s) - n])

\* String.prototype.trim
Trim(s) ==
  IF LeadLen(s) = Len(s) THEN <<>>
  ELSE SubSeq(s, LeadLen(s) + 1, Len(s) - TrailLen(s))

HasSpace(s) == \E k \in 1..Len(s) : IsSpace(s[k])

FirstSpace(s) == CHOOSE k \in 1..Len(s) : IsSpace(s[k]) /\ \A h \in 1..(k - 1) : ~IsSpace(s[h])

\* a split on every single whitespace character
RECURSIVE SplitEachSpace(_)
SplitEachSpace(s) ==
  IF ~HasSpace(s) THEN <<s>>
  ELSE <<SubSeq(s, 1, FirstSpace(s) - 1)>> \o SplitEachSpace(SubSeq(s, FirstSpace(s) + 1, Len(s)))

\* String.prototype.split(/\s+/)
RECURSIVE SplitSpaces(_)
SplitSpaces(s) ==
  IF ~HasSpace(s) THEN <<s>>
  ELSE LET k == FirstSpace(s)
           rest == SubSeq(s, k, Len(s))
       IN <<SubSeq(s, 1, k - 1)>> \o SplitSpaces(SubSeq(rest, LeadLen(rest) + 1, Len(rest)))

\* trimmed.length ? trimmed.split(/\s+/) : []
Words(line) == IF Len(Trim(line)) # 0 THEN SplitSpaces(Trim(line)) ELSE <<>>

\* the word table is filled by the same two loops as the line table
WordTable(lw, rw) == FillDp(lw, rw)

Part(text, kind) == [text |-> text, kind |-> kind]

\* a third branch that marks the word as added
RemovedPartAsAdded(word) == Part(word, "added")

\* the part that the third branch puts in front of leftParts
RemovedPart(word) == Part(word, "removed")

IsSameWordStep(lw, rw, i, j) == i > 0 /\ j > 0 /\ lw[i] = rw[j]

\* a second branch that takes the right word whenever there is one
IsAddedWordStepNoTable(table, i, j) == j > 0

IsAddedWordStep(table, i, j) == j > 0 /\ (i = 0 \/ table[i][j - 1] >= table[i - 1][j])

\* a first branch that appends to leftParts instead of putting in front
SamePartsAppended(lw, rw, lp, rp, i, j) ==
  [leftParts |-> Append(lp, Part(lw[i], "same")),
   rightParts |-> <<Part(rw[j], "same")>> \o rp]

\* the two unshift calls of the first branch
SameParts(lw, rw, lp, rp, i, j) ==
  [leftParts |-> <<Part(lw[i], "same")>> \o lp,
   rightParts |-> <<Part(rw[j], "same")>> \o rp]

RECURSIVE WordLoop(_, _, _, _, _, _, _)
WordLoop(lw, rw, table, lp, rp, i, j) ==
  IF ~(i > 0 \/ j > 0) THEN [leftParts |-> lp, rightParts |-> rp]
  ELSE IF IsSameWordStep(lw, rw, i, j)
    THEN WordLoop(lw, rw, table,
                  SameParts(lw, rw, lp, rp, i, j).leftParts,
                  SameParts(lw, rw, lp, rp, i, j).rightParts, i - 1, j - 1)
  ELSE IF IsAddedWordStep(table, i, j)
    THEN WordLoop(lw, rw, table, lp, <<Part(rw[j], "added")>> \o rp, i, j - 1)
  ELSE IF i > 0
    THEN WordLoop(lw, rw, table, <<RemovedPart(lw[i])>> \o lp, rp, i - 1, j)
  \* no branch taken: the while loop runs again on the same i and j
  ELSE WordLoop(lw, rw, table, lp, rp, i, j)

\* DiffEngine.buildWordDiff(leftLine, rightLine)
WordDiff(l, r) ==
  LET parts == WordLoop(Words(l), Words(r), WordTable(Words(l), Words(r)),
                        <<>>, <<>>, Len(Words(l)), Len(Words(r)))
  IN [leftParts |-> parts.leftParts, rightParts |-> parts.rightParts,
      leadingLeft |-> Leading(l), leadingRight |-> Leading(r)]

\* the text that renderWordParts shows: a space before every part but the first
RECURSIVE RenderText(_)
RenderText(parts) ==
  IF parts = <<>> THEN <<>>
  ELSE IF Len(parts) = 1 THEN parts[1].text
  ELSE RenderText(SubSeq(parts, 1, Len(parts) - 1)) \o <<" ">> \o parts[Len(parts)].text

----------------------------------------------------------------------------
(* DiffPage: the state of the page, its memoised rows and what a row shows *)

\* the texts typed into the two text areas: one letter and the newline
PageChars == {"a", NL}

PageTexts == UNION {[1..n -> PageChars] : n \in 0..PageMaxLen}

Sides == {"left", "right"}

\* a filter that keeps the rows that are not changed
VisibleRowsNotChanged(all, only) ==
  IF only THEN SelectSeq(all, LAMBDA row : row.status # "changed") ELSE all

\* onlyChanges ? allRows.filter((row) => row.status !== "same") : allRows
VisibleRows(all, only) ==
  IF only THEN SelectSeq(all, LAMBDA row : row.status # "same") ELSE all

\* a memo whose dependency list leaves out rightText
RowsMemoLeftOnly(oldRows, oldLeft, oldRight, newLeft, newRight) ==
  IF newLeft = oldLeft THEN oldRows
  ELSE LineDiff(newLeft, newRight)

\* a memo that hands back the rows shown last instead of the rows computed last
RowsMemoOfShown(oldRows, oldLeft, oldRight, newLeft, newRight) ==
  IF newLeft = oldLeft /\ newRight = oldRight THEN diffRows
  ELSE LineDiff(newLeft, newRight)

\* useMemo(() => new DiffEngine(leftText, rightText).buildLineDiff(),
\* [leftText, rightText]): computed again only when a dependency changed
RowsMemo(oldRows, oldLeft, oldRight, newLeft, newRight) ==
  IF newLeft = oldLeft /\ newRight = oldRight THEN oldRows
  ELSE LineDiff(newLeft, newRight)

\* the render that follows every state update
Render ==
  /\ allRows' = RowsMemo(allRows, leftText, rightText, leftText', rightText')
  /\ diffRows' = VisibleRows(allRows', onlyChanges')

\* row.status === "changed" && showWordDiff
ShowsWords(row) == row.status = "changed" /\ showWordDiff

\* what the left cell of a row shows
LeftCell(row) ==
  IF ShowsWords(row)
    THEN WordDiff(row.left, row.right).leadingLeft
           \o RenderText(WordDiff(row.left, row.right).leftParts)
  ELSE IF row.left # <<>> THEN row.left ELSE <<" ">>

\* what the right cell of a row shows
RightCell(row) ==
  IF ShowsWords(row)
    THEN WordDiff(row.left, row.right).leadingRight
           \o RenderText(WordDiff(row.left, row.right).rightParts)
  ELSE IF row.right # <<>> THEN row.right ELSE <<" ">>

----------------------------------------------------------------------------
(* The JSON viewer: pathToId *)

\* the characters of an object key: the three that pathToId treats
\* specially and a digit
PathChars == {"$", "~", "/", "1"}

Keys == UNION {[1..n -> PathChars] : n \in 0..SegMaxLen}

\* a segment of a JsonPath is an object key (a string) or an array index (a
\* number)
Segments == {[key |-> k] : k \in Keys} \cup {[index |-> n] : n \in 0..MaxIndex}

Paths == UNION {[1..n -> Segments] : n \in 0..PathMaxLen}

IsIndex(segment) == "index" \in DOMAIN segment

Digit(d) == <<"0", "1", "2", "3", "4", "5", "6", "7", "8", "9">>[d + 1]

\* String(n) for a number n that is a natural
RECURSIVE NatToString(_)
NatToString(n) ==
  IF n < 10 THEN <<Digit(n)>> ELSE NatToString(n \div 10) \o <<Digit(n % 10)>>

\* String(segment)
SegmentString(segment) ==
  IF IsIndex(segment) THEN NatToString(segment.index) ELSE segment.key

\* String.prototype.replaceAll(from, to) for a pattern of one character
RECURSIVE ReplaceAll(_, _, _)
ReplaceAll(s, from, to) ==
  IF s = <<>> THEN <<>>
  ELSE (IF Head(s) = from THEN to ELSE <<Head(s)>>) \o ReplaceAll(Tail(s), from, to)

\* String(segment).replaceAll("~", "~0").replaceAll("/", "~1")
Escaped(segment) ==
  ReplaceAll(ReplaceAll(SegmentString(segment), "~", <<"~", "0">>), "/", <<"~", "1">>)

\* Array.prototype.join(sep)
RECURSIVE Join(_, _)
Join(strings, sep) ==
  IF strings = <<>> THEN <<>>
  ELSE IF Len(strings) = 1 THEN strings[1]
  ELSE strings[1] \o sep \o Join(Tail(strings), sep)

PathToId(path) ==
  IF Len(path) = 0 THEN <<"$">>
  ELSE Join([k \in 1..Len(path) |-> Escaped(path[k])], <<"/">>)

\* the first position at which two paths differ, if both go that far
Forks(p, q) ==
  {k \in 1..Len(p) : k <= Len(q) /\ p[k] # q[k] /\ \A h \in 1..(k - 1) : p[h] = q[h]}

\* collectContainerPaths extends the path of an array by its indices and the
\* path of an object by its keys: two paths of one tree that part at a node
\* go on with two indices or with two keys
SameTree(p, q) == \A k \in Forks(p, q) : IsIndex(p[k]) = IsIndex(q[k])

----------------------------------------------------------------------------
(* The cron tool: the texts of a field and the patterns they are tested with *)

DigitChars == {"0", "1", "2", "3", "4", "5", "6", "7", "8", "9"}

\* /^\d+$/
IsDigits(s) == Len(s) > 0 /\ \A k \in 1..Len(s) : s[k] \in DigitChars

DigitValue(c) == CHOOSE d \in 0..9 : Digit(d) = c

\* Number(s) and parseInt(s) of a text made of digits; Number("") is 0
RECURSIVE ToNumber(_)
ToNumber(s) ==
  IF s = <<>> THEN 0
  ELSE 10 * ToNumber(SubSeq(s, 1, Len(s) - 1)) + DigitValue(s[Len(s)])

\* the position of the first c in s, 0 when there is none
IndexOf(s, c) ==
  IF \E k \in 1..Len(s) : s[k] = c
    THEN CHOOSE k \in 1..Len(s) : s[k] = c /\ \A h \in 1..(k - 1) : s[h] # c
  ELSE 0

Before(s, c) == SubSeq(s, 1, IndexOf(s, c) - 1)

After(s, c) == SubSeq(s, IndexOf(s, c) + 1, Len(s))

\* String.prototype.split(c) for a separator of one character
RECURSIVE SplitOn(_, _)
SplitOn(s, c) ==
  IF IndexOf(s, c) = 0 THEN <<s>>
  ELSE <<Before(s, c)>> \o SplitOn(After(s, c), c)

\* /^\d+-\d+$/
IsRangeText(s) == IndexOf(s, "-") > 0 /\ IsDigits(Before(s, "-")) /\ IsDigits(After(s, "-"))

\* /^\d+\/\d+$/
IsBaseStepText(s) == IndexOf(s, "/") > 0 /\ IsDigits(Before(s, "/")) /\ IsDigits(After(s, "/"))

\* /^\*\/\d+$/
IsStarStepText(s) == Len(s) >= 3 /\ s[1] = "*" /\ s[2] = "/" /\ IsDigits(SubSeq(s, 3, Len(s)))

\* /^[\d,]+$/
IsListText(s) == Len(s) > 0 /\ \A k \in 1..Len(s) : s[k] \in DigitChars \cup {","}

\* /^H\/(\d+)$/
IsHStepText(s) == Len(s) >= 3 /\ s[1] = "H" /\ s[2] = "/" /\ IsDigits(SubSeq(s, 3, Len(s)))

\* /^H\((\d+)-(\d+)\)$/
IsHRangeText(s) ==
  /\ Len(s) >= 6
  /\ s[1] = "H"
  /\ s[2] = "("
  /\ s[Len(s)] = ")"
  /\ IsRangeText(SubSeq(s, 3, Len(s) - 1))

\* /^H\((\d+)-(\d+)\)\/(\d+)$/
IsHRangeStepText(s) ==
  /\ IndexOf(s, ")") > 0
  /\ IsHRangeText(SubSeq(s, 1, IndexOf(s, ")")))
  /\ IndexOf(s, ")") + 2 <= Len(s)
  /\ s[IndexOf(s, ")") + 1] = "/"
  /\ IsDigits(SubSeq(s, IndexOf(s, ")") + 2, Len(s)))

\* the three groups of the H patterns
HStart(s) == ToNumber(Before(SubSeq(s, 3, Len(s)), "-"))

HEnd(s) == ToNumber(After(Before(s, ")"), "-"))

HStep(s) == ToNumber(After(s, "/"))

\* the digit runs the field texts are made of
CronDigits == {<<"0">>, <<"1">>, <<"2">>, <<"7">>}

\* the texts of a field: every form that validateExpression, resolveJenkinsH
\* and parseField tell apart, and some that none of them knows
CronParts ==
  {<<"*">>, <<"?">>, <<"H">>, <<"M", "O", "N">>, <<"m", "o", "n">>, <<"x">>, <<"1", "/">>}
    \cup CronDigits
    \cup {<<"*", "/">> \o d : d \in CronDigits}
    \cup {<<"H", "/">> \o d : d \in CronDigits}
    \cup {d \o <<"/">> \o e : d \in CronDigits, e \in CronDigits}
    \cup {d \o <<"-">> \o e : d \in CronDigits, e \in CronDigits}
    \cup {d \o <<",">> \o e : d \in CronDigits, e \in CronDigits}
    \cup {<<"H", "(">> \o d \o <<"-">> \o e \o <<")">> : d \in CronDigits, e \in CronDigits}
    \cup {<<"H", "(">> \o d \o <<"-">> \o e \o <<")", "/">> \o f :
            d \in CronDigits, e \in CronDigits, f \in CronDigits}

----------------------------------------------------------------------------
(* The cron tool: field definitions, validateExpression, resolveJenkinsH *)

Platforms == {"linux", "jenkins", "spring", "quartz"}

FieldDef(key, min, max, hasNames, names) ==
  [key |-> key, min |-> min, max |-> max, hasNames |-> hasNames, names |-> names]

MonthNames ==
  {<<>>, <<"J", "A", "N">>, <<"F", "E", "B">>, <<"M", "A", "R">>, <<"A", "P", "R">>,
   <<"M", "A", "Y">>, <<"J", "U", "N">>, <<"J", "U", "L">>, <<"A", "U", "G">>,
   <<"S", "E", "P">>, <<"O", "C", "T">>, <<"N", "O", "V">>, <<"D", "E", "C">>}

WeekdayNames ==
  {<<"S", "U", "N">>, <<"M", "O", "N">>, <<"T", "U", "E">>, <<"W", "E", "D">>,
   <<"T", "H", "U">>, <<"F", "R", "I">>, <<"S", "A", "T">>}

COMMON_FIELDS ==
  << FieldDef("minute", 0, 59, FALSE, {}),
     FieldDef("hour", 0, 23, FALSE, {}),
     FieldDef("day", 1, 31, FALSE, {}),
     FieldDef("month", 1, 12, TRUE, MonthNames),
     FieldDef("weekday", 0, 6, TRUE, WeekdayNames) >>

SECOND_DEF == FieldDef("second", 0, 59, FALSE, {})

YEAR_DEF == FieldDef("year", 2024, 2099, FALSE, {})

FIELD_DEFS(p) ==
  CASE p \in {"linux", "jenkins"} -> COMMON_FIELDS
    [] p = "spring" -> <<SECOND_DEF>> \o COMMON_FIELDS
    [] p = "quartz" ->
         <<SECOND_DEF>> \o SubSeq(COMMON_FIELDS, 1, 4)
           \o <<FieldDef("weekday", 1, 7, TRUE, WeekdayNames \cup {<<>>}), YEAR_DEF>>

\* the value is outside the range of the field
OutOfRange(v, def) == v < def.min \/ v > def.max

\* the errors of a start-end pair: start out of range, end out of range,
\* start after end
RangeErrors(start, end, def) ==
  (IF OutOfRange(start, def) THEN {"start"} ELSE {})
    \cup (IF OutOfRange(end, def) THEN {"end"} ELSE {})
    \cup (IF start > end THEN {"order"} ELSE {})

\* a step check that lets 0 through
StepErrorsFromZero(step) == IF step < 0 THEN {"step"} ELSE {}

\* if (step < 1) errors.push(...)
StepErrors(step) == IF step < 1 THEN {"step"} ELSE {}

\* String.prototype.toUpperCase on the letters of the field texts
Upper(s) ==
  [k \in 1..Len(s) |->
     CASE s[k] = "m" -> "M" [] s[k] = "o" -> "O" [] s[k] = "n" -> "N" [] s[k] = "x" -> "X"
       [] OTHER -> s[k]]

\* every name of the list is a name of the field or a number
AllNamesValid(text, def) ==
  \A k \in 1..Len(SplitOn(Upper(text), ",")) :
    SplitOn(Upper(text), ",")[k] \in def.names \/ IsDigits(SplitOn(Upper(text), ",")[k])

\* the errors that the body of the for loop of validateExpression pushes for
\* one field
FieldErrors(text, def, p) ==
  IF text = <<"*">> THEN {}
  ELSE IF p = "jenkins" THEN
    IF text = <<"H">> THEN {}
    ELSE IF IsHStepText(text) THEN StepErrors(HStep(text))
    ELSE IF IsHRangeText(text) THEN RangeErrors(HStart(text), HEnd(text), def)
    ELSE IF IsHRangeStepText(text) THEN
      (IF OutOfRange(HStart(text), def) THEN {"start"} ELSE {})
        \cup (IF OutOfRange(HEnd(text), def) THEN {"end"} ELSE {})
        \cup StepErrors(ToNumber(SubSeq(text, IndexOf(text, ")") + 2, Len(text))))
    ELSE IF IsRangeText(text)
      THEN RangeErrors(ToNumber(Before(text, "-")), ToNumber(After(text, "-")), def)
    ELSE {"jenkins"}
  ELSE IF IsStarStepText(text) THEN StepErrors(ToNumber(After(text, "/")))
  ELSE IF IsBaseStepText(text) THEN
    (IF OutOfRange(ToNumber(Before(text, "/")), def) THEN {"start"} ELSE {})
      \cup StepErrors(ToNumber(After(text, "/")))
  ELSE IF IsRangeText(text)
    THEN RangeErrors(ToNumber(Before(text, "-")), ToNumber(After(text, "-")), def)
  ELSE IF IsListText(text) THEN
    IF \E k \in 1..Len(SplitOn(text, ",")) : OutOfRange(ToNumber(SplitOn(text, ",")[k]), def)
      THEN {"value"} ELSE {}
  ELSE IF p = "quartz" /\ text = <<"?">> /\ def.key \in {"day", "weekday"} THEN {}
  ELSE IF def.hasNames /\ AllNamesValid(text, def) THEN {}
  ELSE {"format"}

\* the number that is not a number, kept apart from every number of the model
NaN == 0 - 1000000

\* the absolute value
Abs(a) == IF a < 0 THEN 0 - a ELSE a

\* a % b: the sign of the dividend, NaN on a zero divisor
JsRemainder(a, b) ==
  IF a = NaN \/ b = NaN \/ b = 0 THEN NaN
  ELSE IF a < 0 THEN 0 - (Abs(a) % Abs(b))
  ELSE a % Abs(b)

\* a + b
JsSum(a, b) == IF a = NaN \/ b = NaN THEN NaN ELSE a + b

\* String(x) and `${x}`
NumberString(x) ==
  IF x = NaN THEN <<"N", "a", "N">>
  ELSE IF x < 0 THEN <<"-">> \o NatToString(0 - x)
  ELSE NatToString(x)

\* the callback of parts.map in resolveJenkinsH
ResolveJenkinsH(text, seed, def) ==
  LET range == def.max - def.min + 1
      hVal == def.min + JsRemainder(seed, range)
  IN IF text = <<"H">> THEN NumberString(hVal)
     ELSE IF IsHStepText(text)
       THEN NumberString(JsRemainder(hVal, HStep(text))) \o <<"/">> \o NumberString(HStep(text))
     ELSE IF IsHRangeText(text)
       THEN NumberString(JsSum(HStart(text),
                               JsRemainder(seed, HEnd(text) - HStart(text) + 1)))
     ELSE IF IsHRangeStepText(text)
       THEN LET step == ToNumber(SubSeq(text, IndexOf(text, ")") + 2, Len(text)))
                base == JsSum(HStart(text), JsRemainder(seed, HEnd(text) - HStart(text) + 1))
            IN NumberString(JsRemainder(base, step)) \o <<"/">> \o NumberString(step)
     ELSE text

\* what parseField is about to do with a field: return null (all values),
\* return the numbers of a list, or run one of its three for loops
ParsePlan(text, def) ==
  IF text = <<"*">> \/ text = <<"?">> THEN [kind |-> "all"]
  ELSE IF IsStarStepText(text)
    THEN [kind |-> "loop", from |-> def.min, to |-> def.max, step |-> ToNumber(After(text, "/"))]
  ELSE IF IsBaseStepText(text)
    THEN [kind |-> "loop", from |-> ToNumber(Before(text, "/")), to |-> def.max,
          step |-> ToNumber(After(text, "/"))]
  ELSE IF IsRangeText(text)
    THEN [kind |-> "loop", from |-> ToNumber(Before(text, "-")),
          to |-> ToNumber(After(text, "-")), step |-> 1]
  ELSE IF IsListText(text)
    THEN [kind |-> "list",
          list |-> [k \in 1..Len(SplitOn(text, ",")) |-> ToNumber(SplitOn(text, ",")[k])]]
  ELSE [kind |-> "all"]

\* the values that the field of the cursor can take in the scan
CursorValues(def) == IF def.key = "second" THEN {0} ELSE def.min..def.max

----------------------------------------------------------------------------
(* DiffPage: the React key of a rendered row *)

\* the characters of a status
StatusString(status) ==
  CASE status = "same" -> <<"s", "a", "m", "e">>
    [] status = "changed" -> <<"c", "h", "a", "n", "g", "e", "d">>
    [] status = "added" -> <<"a", "d", "d", "e", "d">>
    [] status = "removed" -> <<"r", "e", "m", "o", "v", "e", "d">>

\* row.leftNumber ?? "x"
LeftKeyPart(row) ==
  IF "leftNumber" \in DOMAIN row THEN NatToString(row.leftNumber) ELSE <<"x">>

\* row.rightNumber ?? "y"
RightKeyPart(row) ==
  IF "rightNumber" \in DOMAIN row THEN NatToString(row.rightNumber) ELSE <<"y">>

\* a key made of the left number and the status only
RowKeyLeftOnly(row) == LeftKeyPart(row) \o <<"-">> \o StatusString(row.status)

\* key={`${row.leftNumber ?? "x"}-${row.rightNumber ?? "y"}-${row.status}`}
RowKey(row) ==
  LeftKeyPart(row) \o <<"-">> \o RightKeyPart(row) \o <<"-">> \o StatusString(row.status)

----------------------------------------------------------------------------
(* The parts of the state that a specification leaves alone *)

NoWordDiff == [leftParts |-> <<>>, rightParts |-> <<>>, leadingLeft |-> <<>>, leadingRight |-> <<>>]

WordIdle ==
  /\ leftLine = <<>>
  /\ rightLine = <<>>
  /\ leftWords = <<>>
  /\ rightWords = <<>>
  /\ wordDiff = NoWordDiff

StepIdle ==
  /\ curI = 0
  /\ curJ = 0
  /\ iter = 0
  /\ reads = {}

PageIdle ==
  /\ onlyChanges = FALSE
  /\ showWordDiff = TRUE
  /\ clearState = "idle"
  /\ timers = <<>>
  /\ allRows = <<>>
  /\ diffRows = <<>>

EngineIdle ==
  /\ leftLines = <<>>
  /\ rightLines = <<>>
  /\ dp = ZeroTable(0, 0)
  /\ ops = <<>>
  /\ rows = <<>>

ViewerIdle ==
  /\ pathA = <<>>
  /\ pathB = <<>>
  /\ idA = <<>>
  /\ idB = <<>>

CronIdle ==
  /\ platform = "linux"
  /\ fieldDef = COMMON_FIELDS[1]
  /\ part = <<>>
  /\ hashSeed = 0
  /\ validation = "none"
  /\ resolvedPart = <<>>
  /\ loopI = 0
  /\ loopStep = 0
  /\ loopEnd = 0
  /\ vals = <<>>
  /\ allValues = FALSE
  /\ scanI = 0
  /\ results = <<>>

ToolsIdle == ViewerIdle /\ CronIdle

----------------------------------------------------------------------------
(* The engine as a state machine: the two texts are the inputs *)

InitDiff ==
  /\ leftText \in Texts
  /\ rightText \in Texts
  /\ phase = "input"
  /\ leftLines = <<>>
  /\ rightLines = <<>>
  /\ dp = ZeroTable(0, 0)
  /\ ops = <<>>
  /\ rows = <<>>
  /\ WordIdle
  /\ StepIdle
  /\ PageIdle
  /\ ToolsIdle

\* constructor(leftText, rightText)
Construct ==
  /\ phase = "input"
  /\ leftLines' = Split(leftText)
  /\ rightLines' = Split(rightText)
  /\ phase' = "constructed"
  /\ UNCHANGED <<leftText, rightText, dp, ops, rows, wordVars, stepVars, pageVars>>
  /\ UNCHANGED toolVars

\* buildLineDiff(), with its calls of collectOps and toRows
BuildLineDiff ==
  /\ phase = "constructed"
  /\ dp' = FillDp(leftLines, rightLines)
  /\ ops' = CollectOps(leftLines, rightLines, dp')
  /\ rows' = ToRows(ops')
  /\ phase' = "done"
  /\ UNCHANGED <<leftText, rightText, leftLines, rightLines, wordVars, stepVars, pageVars>>
  /\ UNCHANGED toolVars

NextDiff == Construct \/ BuildLineDiff

SpecDiff == InitDiff /\ [][NextDiff]_vars

----------------------------------------------------------------------------
(* buildWordDiff as a state machine: the two lines are the inputs *)

InitWord ==
  /\ leftLine \in WordTexts
  /\ rightLine \in WordTexts
  /\ phase = "wordInput"
  /\ leftWords = <<>>
  /\ rightWords = <<>>
  /\ wordDiff = NoWordDiff
  /\ leftText = <<>>
  /\ rightText = <<>>
  /\ EngineIdle
  /\ StepIdle
  /\ PageIdle
  /\ ToolsIdle

\* buildWordDiff(leftLine, rightLine)
BuildWordDiff ==
  /\ phase = "wordInput"
  /\ leftWords' = Words(leftLine)
  /\ rightWords' = Words(rightLine)
  /\ wordDiff' = WordDiff(leftLine, rightLine)
  /\ phase' = "wordDone"
  /\ UNCHANGED <<leftLine, rightLine, leftText, rightText, leftLines, rightLines,
                 dp, ops, rows, stepVars, pageVars>>
  /\ UNCHANGED toolVars

NextWord == BuildWordDiff

SpecWord == InitWord /\ [][NextWord]_vars

----------------------------------------------------------------------------
(* DiffPage as a state machine: edits, Clear, its timers and the switches *)

\* Any text can be in a text area (onChange sets the whole value), so the
\* page starts from any pair of texts, rendered once, the switches as
\* useState initialises them and no timer pending.
InitPage ==
  /\ leftText \in PageTexts
  /\ rightText \in PageTexts
  /\ onlyChanges = FALSE
  /\ showWordDiff = TRUE
  /\ clearState = "idle"
  /\ timers = <<>>
  /\ allRows = LineDiff(leftText, rightText)
  /\ diffRows = VisibleRows(allRows, onlyChanges)
  /\ phase = "page"
  /\ EngineIdle
  /\ WordIdle
  /\ StepIdle
  /\ ToolsIdle

\* onChange of the left text area
SetLeftText(t) ==
  /\ leftText' = t
  /\ UNCHANGED <<rightText, onlyChanges, showWordDiff, clearState, timers>>
  /\ Render
  /\ UNCHANGED <<phase, leftLines, rightLines, dp, ops, rows, wordVars, stepVars>>
  /\ UNCHANGED toolVars

\* onChange of the right text area
SetRightText(t) ==
  /\ rightText' = t
  /\ UNCHANGED <<leftText, onlyChanges, showWordDiff, clearState, timers>>
  /\ Render
  /\ UNCHANGED <<phase, leftLines, rightLines, dp, ops, rows, wordVars, stepVars>>
  /\ UNCHANGED toolVars

\* handleClear(side): the timers fire in the order they were set
HandleClear(side) ==
  /\ Len(timers) < MaxTimers
  /\ IF side = "left"
       THEN leftText' = <<>> /\ UNCHANGED rightText
       ELSE rightText' = <<>> /\ UNCHANGED leftText
  /\ clearState' = side
  /\ timers' = Append(timers, side)
  /\ UNCHANGED <<onlyChanges, showWordDiff>>
  /\ Render
  /\ UNCHANGED <<phase, leftLines, rightLines, dp, ops, rows, wordVars, stepVars>>
  /\ UNCHANGED toolVars

\* the callback of window.setTimeout: () => setClearState("idle")
TimerFire ==
  /\ timers # <<>>
  /\ clearState' = "idle"
  /\ timers' = Tail(timers)
  /\ UNCHANGED <<leftText, rightText, onlyChanges, showWordDiff>>
  /\ Render
  /\ UNCHANGED <<phase, leftLines, rightLines, dp, ops, rows, wordVars, stepVars>>
  /\ UNCHANGED toolVars

\* onCheckedChange of the "Changes only" switch
SetOnlyChanges(checked) ==
  /\ onlyChanges' = checked
  /\ UNCHANGED <<leftText, rightText, showWordDiff, clearState, timers>>
  /\ Render
  /\ UNCHANGED <<phase, leftLines, rightLines, dp, ops, rows, wordVars, stepVars>>
  /\ UNCHANGED toolVars

\* onCheckedChange of the "Word highlight" switch
SetShowWordDiff(checked) ==
  /\ showWordDiff' = checked
  /\ UNCHANGED <<leftText, rightText, onlyChanges, clearState, timers>>
  /\ Render
  /\ UNCHANGED <<phase, leftLines, rightLines, dp, ops, rows, wordVars, stepVars>>
  /\ UNCHANGED toolVars

NextPage ==
  \/ \E t \in PageTexts : SetLeftText(t)
  \/ \E t \in PageTexts : SetRightText(t)
  \/ \E side \in Sides : HandleClear(side)
  \/ TimerFire
  \/ \E checked \in BOOLEAN : SetOnlyChanges(checked)
  \/ \E checked \in BOOLEAN : SetShowWordDiff(checked)

SpecPage == InitPage /\ [][NextPage]_vars

----------------------------------------------------------------------------
(* The two backtracking loops, one iteration at a time *)

StepTexts == UNION {[1..n -> Chars] : n \in 0..StepMaxLen}

StepLines == UNION {[1..n -> WordChars] : n \in 0..StepMaxLen}

\* the dp cells that the condition of the second branch reads at (i, j):
\* j > 0 && (i === 0 || dp[i][j - 1] >= dp[i - 1][j]) stops at the first
\* operand that decides it
DpReads(i, j) == IF j > 0 /\ i # 0 THEN {<<i, j - 1>>, <<i - 1, j>>} ELSE {}

InitSteps ==
  /\ ToolsIdle
  /\ \/ /\ leftText \in StepTexts
        /\ rightText \in StepTexts
        /\ phase = "input"
        /\ EngineIdle
        /\ WordIdle
        /\ StepIdle
        /\ PageIdle
     \/ /\ leftLine \in StepLines
        /\ rightLine \in StepLines
        /\ phase = "wordInput"
        /\ leftWords = <<>>
        /\ rightWords = <<>>
        /\ wordDiff = NoWordDiff
        /\ leftText = <<>>
        /\ rightText = <<>>
        /\ EngineIdle
        /\ StepIdle
        /\ PageIdle

\* buildLineDiff up to the while loop of collectOps
EnterCollect ==
  /\ phase = "constructed"
  /\ dp' = FillDp(leftLines, rightLines)
  /\ ops' = <<>>
  /\ curI' = Len(leftLines)
  /\ curJ' = Len(rightLines)
  /\ iter' = 0
  /\ reads' = {}
  /\ phase' = "collect"
  /\ UNCHANGED <<leftText, rightText, leftLines, rightLines, rows, wordVars, pageVars>>
  /\ UNCHANGED toolVars

\* an iteration that takes the first branch
CollectSame ==
  /\ phase = "collect"
  /\ curI > 0 \/ curJ > 0
  /\ IsSameStep(leftLines, rightLines, curI, curJ)
  /\ ops' = Append(ops, Op("same", leftLines[curI]))
  /\ curI' = curI - 1
  /\ curJ' = curJ - 1
  /\ iter' = iter + 1
  /\ UNCHANGED <<leftText, rightText, phase, leftLines, rightLines, dp, rows, reads,
                 wordVars, pageVars>>
  /\ UNCHANGED toolVars

\* an iteration that takes the second branch
CollectAdded ==
  /\ phase = "collect"
  /\ curI > 0 \/ curJ > 0
  /\ ~IsSameStep(leftLines, rightLines, curI, curJ)
  /\ IsAddedStep(dp, curI, curJ) = TRUE
  /\ reads' = reads \cup DpReads(curI, curJ)
  /\ ops' = Append(ops, Op("added", rightLines[curJ]))
  /\ curJ' = curJ - 1
  /\ iter' = iter + 1
  /\ UNCHANGED <<leftText, rightText, phase, leftLines, rightLines, dp, rows, curI,
                 wordVars, pageVars>>
  /\ UNCHANGED toolVars

\* a third branch that pushes the removed operation and forgets i -= 1
CollectRemovedStuck ==
  /\ phase = "collect"
  /\ curI > 0 \/ curJ > 0
  /\ ~IsSameStep(leftLines, rightLines, curI, curJ)
  /\ ~IsAddedStep(dp, curI, curJ)
  /\ reads' = reads \cup DpReads(curI, curJ)
  /\ ops' = IF curI > 0 THEN Append(ops, Op("removed", leftLines[curI])) ELSE ops
  /\ iter' = iter + 1
  /\ UNCHANGED <<leftText, rightText, phase, leftLines, rightLines, dp, rows, curI, curJ,
                 wordVars, pageVars>>
  /\ UNCHANGED toolVars

\* an iteration that comes to the third if: it pushes a removed operation
\* when i > 0 and does nothing otherwise
CollectRemoved ==
  /\ phase = "collect"
  /\ curI > 0 \/ curJ > 0
  /\ ~IsSameStep(leftLines, rightLines, curI, curJ)
  /\ ~IsAddedStep(dp, curI, curJ)
  /\ reads' = reads \cup DpReads(curI, curJ)
  /\ IF curI > 0
       THEN ops' = Append(ops, Op("removed", leftLines[curI])) /\ curI' = curI - 1
       ELSE UNCHANGED <<ops, curI>>
  /\ iter' = iter + 1
  /\ UNCHANGED <<leftText, rightText, phase, leftLines, rightLines, dp, rows, curJ,
                 wordVars, pageVars>>
  /\ UNCHANGED toolVars

\* the loop is left: ops.reverse(), then toRows
ExitCollect ==
  /\ phase = "collect"
  /\ ~(curI > 0 \/ curJ > 0)
  /\ ops' = Reverse(ops)
  /\ rows' = ToRows(ops')
  /\ phase' = "done"
  /\ UNCHANGED <<leftText, rightText, leftLines, rightLines, dp, wordVars, stepVars, pageVars>>
  /\ UNCHANGED toolVars

\* buildWordDiff up to its while loop
EnterWordLoop ==
  /\ phase = "wordInput"
  /\ leftWords' = Words(leftLine)
  /\ rightWords' = Words(rightLine)
  /\ dp' = WordTable(leftWords', rightWords')
  /\ wordDiff' = [leftParts |-> <<>>, rightParts |-> <<>>,
                  leadingLeft |-> Leading(leftLine), leadingRight |-> Leading(rightLine)]
  /\ curI' = Len(leftWords')
  /\ curJ' = Len(rightWords')
  /\ iter' = 0
  /\ reads' = {}
  /\ phase' = "wordLoop"
  /\ UNCHANGED <<leftText, rightText, leftLines, rightLines, ops, rows, leftLine, rightLine,
                 pageVars>>
  /\ UNCHANGED toolVars

WordSame ==
  /\ phase = "wordLoop"
  /\ curI > 0 \/ curJ > 0
  /\ IsSameWordStep(leftWords, rightWords, curI, curJ)
  /\ wordDiff' = [wordDiff EXCEPT
       !.leftParts = SameParts(leftWords, rightWords, wordDiff.leftParts, wordDiff.rightParts, curI, curJ).leftParts,
       !.rightParts = SameParts(leftWords, rightWords, wordDiff.leftParts, wordDiff.rightParts, curI, curJ).rightParts]
  /\ curI' = curI - 1
  /\ curJ' = curJ - 1
  /\ iter' = iter + 1
  /\ UNCHANGED <<leftText, rightText, phase, leftLines, rightLines, dp, ops, rows, reads,
                 leftLine, rightLine, leftWords, rightWords, pageVars>>
  /\ UNCHANGED toolVars

WordAdded ==
  /\ phase = "wordLoop"
  /\ curI > 0 \/ curJ > 0
  /\ ~IsSameWordStep(leftWords, rightWords, curI, curJ)
  /\ IsAddedWordStep(dp, curI, curJ) = TRUE
  /\ reads' = reads \cup DpReads(curI, curJ)
  /\ wordDiff' = [wordDiff EXCEPT !.rightParts = <<Part(rightWords[curJ], "added")>> \o @]
  /\ curJ' = curJ - 1
  /\ iter' = iter + 1
  /\ UNCHANGED <<leftText, rightText, phase, leftLines, rightLines, dp, ops, rows, curI,
                 leftLine, rightLine, leftWords, rightWords, pageVars>>
  /\ UNCHANGED toolVars

WordRemoved ==
  /\ phase = "wordLoop"
  /\ curI > 0 \/ curJ > 0
  /\ ~IsSameWordStep(leftWords, rightWords, curI, curJ)
  /\ ~IsAddedWordStep(dp, curI, curJ)
  /\ reads' = reads \cup DpReads(curI, curJ)
  /\ IF curI > 0
       THEN /\ wordDiff' = [wordDiff EXCEPT !.leftParts = <<RemovedPart(leftWords[curI])>> \o @]
            /\ curI' = curI - 1
       ELSE UNCHANGED <<wordDiff, curI>>
  /\ iter' = iter + 1
  /\ UNCHANGED <<leftText, rightText, phase, leftLines, rightLines, dp, ops, rows, curJ,
                 leftLine, rightLine, leftWords, rightWords, pageVars>>
  /\ UNCHANGED toolVars

\* return { leftParts, rightParts, leadingLeft, leadingRight }
ExitWordLoop ==
  /\ phase = "wordLoop"
  /\ ~(curI > 0 \/ curJ > 0)
  /\ phase' = "wordDone"
  /\ UNCHANGED <<leftText, rightText, leftLines, rightLines, dp, ops, rows, wordVars,
                 stepVars, pageVars>>
  /\ UNCHANGED toolVars

NextSteps ==
  \/ Construct
  \/ EnterCollect
  \/ CollectSame
  \/ CollectAdded
  \/ CollectRemoved
  \/ ExitCollect
  \/ EnterWordLoop
  \/ WordSame
  \/ WordAdded
  \/ WordRemoved
  \/ ExitWordLoop

SpecSteps == InitSteps /\ [][NextSteps]_vars

----------------------------------------------------------------------------
(* pathToId as a state machine: two paths are the inputs *)

InitViewer ==
  /\ pathA \in Paths
  /\ pathB \in Paths
  /\ idA = <<>>
  /\ idB = <<>>
  /\ phase = "paths"
  /\ leftText = <<>>
  /\ rightText = <<>>
  /\ EngineIdle
  /\ WordIdle
  /\ StepIdle
  /\ PageIdle
  /\ CronIdle

\* pathToId on each of the two paths
ComputeIds ==
  /\ phase = "paths"
  /\ idA' = PathToId(pathA)
  /\ idB' = PathToId(pathB)
  /\ phase' = "ids"
  /\ UNCHANGED <<pathA, pathB, leftText, rightText, leftLines, rightLines, dp, ops, rows,
                 wordVars, stepVars, pageVars, cronVars>>

NextViewer == ComputeIds

SpecViewer == InitViewer /\ [][NextViewer]_vars

----------------------------------------------------------------------------
(* The next-run simulator of the cron tool as a state machine: one field of
   the active expression, its platform and the hash seed are the inputs; the
   other fields of the expression are "*" *)

\* the numbers that setHashSeed(Number(e.target.value)) stores
Seeds == {0 - 3, 0, DefaultSeed, MaxSeed}

InitCron ==
  /\ platform \in Platforms
  /\ fieldDef \in {FIELD_DEFS(platform)[k] : k \in 1..Len(FIELD_DEFS(platform))}
  /\ part \in CronParts
  /\ hashSeed \in Seeds
  /\ validation = "none"
  /\ resolvedPart = <<>>
  /\ loopI = 0
  /\ loopStep = 0
  /\ loopEnd = 0
  /\ vals = <<>>
  /\ allValues = FALSE
  /\ scanI = 0
  /\ results = <<>>
  /\ phase = "cronInput"
  /\ leftText = <<>>
  /\ rightText = <<>>
  /\ EngineIdle
  /\ WordIdle
  /\ StepIdle
  /\ PageIdle
  /\ ViewerIdle

\* the variables that the simulator leaves alone
notCron ==
  <<leftText, rightText, leftLines, rightLines, dp, ops, rows, wordVars, stepVars,
    pageVars, viewerVars>>

\* the validation memo: validateExpression(activeExpr, platform)
Validate ==
  /\ phase = "cronInput"
  /\ validation' = IF FieldErrors(part, fieldDef, platform) = {} THEN "valid" ELSE "invalid"
  /\ phase' = "validated"
  /\ UNCHANGED <<platform, fieldDef, part, hashSeed, resolvedPart, loopI, loopStep, loopEnd,
                 vals, allValues, scanI, results, notCron>>

\* the text that getNextExecutions parses: resolved for jenkins, which is the
\* only platform that passes a hash seed
Resolved ==
  IF platform = "jenkins" THEN ResolveJenkinsH(part, hashSeed, fieldDef) ELSE part

\* the nextExecutions memo up to the first loop of getNextExecutions: [] for
\* a rejected expression, else the field is resolved and parseField starts
NextExecutions ==
  /\ phase = "validated"
  /\ IF validation = "invalid"
       THEN /\ phase' = "cronDone"
            /\ UNCHANGED <<resolvedPart, loopI, loopStep, loopEnd, vals, allValues>>
       ELSE /\ resolvedPart' = Resolved
            /\ LET plan == ParsePlan(Resolved, fieldDef)
               IN CASE plan.kind = "all" ->
                         /\ allValues' = TRUE
                         /\ phase' = "scan"
                         /\ UNCHANGED <<loopI, loopStep, loopEnd, vals>>
                    [] plan.kind = "list" ->
                         /\ vals' = plan.list
                         /\ phase' = "scan"
                         /\ UNCHANGED <<loopI, loopStep, loopEnd, allValues>>
                    [] plan.kind = "loop" ->
                         /\ loopI' = plan.from
                         /\ loopEnd' = plan.to
                         /\ loopStep' = plan.step
                         /\ phase' = "expand"
                         /\ UNCHANGED <<vals, allValues>>
  /\ UNCHANGED <<platform, fieldDef, part, hashSeed, validation, scanI, results, notCron>>

\* one iteration of a for loop of parseField: vals.push(i); i += step
ExpandStep ==
  /\ phase = "expand"
  /\ loopI <= loopEnd
  /\ vals' = Append(vals, loopI)
  /\ loopI' = loopI + loopStep
  /\ UNCHANGED <<phase, platform, fieldDef, part, hashSeed, validation, resolvedPart,
                 loopStep, loopEnd, allValues, scanI, results, notCron>>

\* the condition of the for loop fails: return vals
ExitExpand ==
  /\ phase = "expand"
  /\ ~(loopI <= loopEnd)
  /\ phase' = "scan"
  /\ UNCHANGED <<platform, fieldDef, part, hashSeed, validation, resolvedPart, loopI,
                 loopStep, loopEnd, vals, allValues, scanI, results, notCron>>

\* matches(val, allowed)
Matches(v, all, allowed) == all \/ \E k \in 1..Len(allowed) : allowed[k] = v

\* one minute of the scan: the cursor shows some value of the field
ScanStep ==
  /\ phase = "scan"
  /\ scanI < MaxIterations
  /\ Len(results) < NextCount
  /\ \E v \in CursorValues(fieldDef) :
       results' = IF Matches(v, allValues, vals) THEN Append(results, scanI) ELSE results
  /\ scanI' = scanI + 1
  /\ UNCHANGED <<phase, platform, fieldDef, part, hashSeed, validation, resolvedPart, loopI,
                 loopStep, loopEnd, vals, allValues, notCron>>

\* the condition of the scan fails: return results
ExitScan ==
  /\ phase = "scan"
  /\ ~(scanI < MaxIterations /\ Len(results) < NextCount)
  /\ phase' = "cronDone"
  /\ UNCHANGED <<platform, fieldDef, part, hashSeed, validation, resolvedPart, loopI,
                 loopStep, loopEnd, vals, allValues, scanI, results, notCron>>

NextCron ==
  \/ Validate
  \/ NextExecutions
  \/ ExpandStep
  \/ ExitExpand
  \/ ScanStep
  \/ ExitScan

SpecCron == InitCron /\ [][NextCron]_vars

----------------------------------------------------------------------------
(* Vocabulary of the properties *)

Done == phase = "done"

\* the number of lines of a text, counted on the text itself
NumLines(s) == Cardinality({k \in 1..Len(s) : s[k] = NL}) + 1

HasLeftNumber(r) == "leftNumber" \in DOMAIN r
HasRightNumber(r) == "rightNumber" \in DOMAIN r

CarriesLeft(r) == r.status \in {"same", "changed", "removed"}
CarriesRight(r) == r.status \in {"same", "changed", "added"}

RowsWith(st) == {k \in 1..Len(rows) : rows[k].status = st}

----------------------------------------------------------------------------
\* C1: the rows that carry a left line (same, changed, removed) number exactly
\* |leftLines| and the rows that carry a right line (same, changed, added)
\* number exactly |rightLines|, the line counts being those of the texts
\* split on the newline.
C1_Coverage ==
  Done =>
    /\ Len(leftLines) = NumLines(leftText)
    /\ Len(rightLines) = NumLines(rightText)
    /\ Cardinality({k \in 1..Len(rows) : CarriesLeft(rows[k])}) = Len(leftLines)
    /\ Cardinality({k \in 1..Len(rows) : CarriesRight(rows[k])}) = Len(rightLines)

C1_Witness ==
  /\ Done
  /\ Len(leftLines) >= 2
  /\ Len(rightLines) >= 2
  /\ RowsWith("changed") # {}
  /\ RowsWith("same") # {}
  /\ RowsWith("added") # {}

\* C2: the leftNumber values of the rows that have one are 1, 2, 3, ... in row
\* order, and so are the rightNumber values; a row has a number on a side
\* exactly when it consumes a line of that side.
C2_MonotonicNumbering ==
  Done =>
    LET withLeft == SelectSeq(rows, HasLeftNumber)
        withRight == SelectSeq(rows, HasRightNumber)
    IN /\ \A k \in 1..Len(withLeft) : withLeft[k].leftNumber = k
       /\ \A k \in 1..Len(withRight) : withRight[k].rightNumber = k
       /\ \A k \in 1..Len(rows) :
            /\ HasLeftNumber(rows[k]) <=> CarriesLeft(rows[k])
            /\ HasRightNumber(rows[k]) <=> CarriesRight(rows[k])

C2_Witness ==
  /\ Done
  /\ \E k \in 1..Len(rows) :
       /\ rows[k].status = "changed"
       /\ rows[k].leftNumber # rows[k].rightNumber
  /\ RowsWith("removed") # {}

\* C3: a text diffed against itself gives one row per line of the text, every
\* row of status same with left = right = that line, and no added, removed
\* or changed row.
C3_IdentityDiff ==
  (Done /\ leftText = rightText) =>
    /\ Len(rows) = NumLines(leftText)
    /\ \A k \in 1..Len(rows) :
         /\ rows[k].status = "same"
         /\ rows[k].left = Split(leftText)[k]
         /\ rows[k].right = Split(leftText)[k]
    /\ RowsWith("added") \cup RowsWith("removed") \cup RowsWith("changed") = {}

C3_Witness ==
  /\ Done
  /\ leftText = rightText
  /\ Len(rows) >= 3
  /\ \E h, k \in 1..Len(rows) : rows[h].left # rows[k].left

----------------------------------------------------------------------------
(* The diff of the swapped texts and its comparison with the diff at hand *)

Swapped == LineDiff(rightText, leftText)

MirrorStatus(st) ==
  IF st = "added" THEN "removed" ELSE IF st = "removed" THEN "added" ELSE st

\* row by row: added <-> removed, same and changed in place, contents swapped
IsMirror(a, b) ==
  /\ Len(a) = Len(b)
  /\ \A k \in 1..Len(a) :
       /\ b[k].status = MirrorStatus(a[k].status)
       /\ b[k].left = a[k].right
       /\ b[k].right = a[k].left

Count(rs, st) == Cardinality({k \in 1..Len(rs) : rs[k].status = st})

\* C4 as stated: the diff of (B, A) is the mirror of the diff of (A, B), row
\* by row, with the same number of rows.
C4_SymmetryAsStated == Done => IsMirror(rows, Swapped)

\* C4 (amended): the diffs of (A, B) and (B, A) have the same number of same
\* rows; and when the diff of (A, B) has no removed and no changed row, or no
\* added and no changed row, the diff of (B, A) is its mirror row by row.
C4_SymmetryAmended ==
  Done =>
    /\ Count(Swapped, "same") = Count(rows, "same")
    /\ (Count(rows, "removed") + Count(rows, "changed") = 0) => IsMirror(rows, Swapped)
    /\ (Count(rows, "added") + Count(rows, "changed") = 0) => IsMirror(rows, Swapped)

C4_Witness ==
  /\ Done
  /\ Count(rows, "removed") + Count(rows, "changed") = 0
  /\ Count(rows, "added") >= 1
  /\ Count(rows, "same") >= 2
  /\ rows[1].status = "added"

----------------------------------------------------------------------------
OneEmpty == (leftText = <<>>) # (rightText = <<>>)

AllStatus(st) == \A k \in 1..Len(rows) : rows[k].status = st

\* C5 as stated: one text empty and the other not: every row is added, or
\* every row is removed, and no row is same.
C5_OneEmptyAsStated ==
  (Done /\ OneEmpty) =>
    /\ AllStatus("added") \/ AllStatus("removed")
    /\ RowsWith("same") = {}

\* the indices of the empty lines of a line sequence
EmptyAt(ls) == {k \in 1..Len(ls) : ls[k] = <<>>}

Last(S) == CHOOSE k \in S : \A h \in S : h <= k

\* C5 (amended): the empty text is one empty line, so exactly one row carries
\* it and every other row is added (left text empty) or removed (right text
\* empty).  That row is a same row on the last empty line of the other text
\* when it has one; otherwise it is a changed row, the first row pairing ""
\* with the first right line (left text empty) or the last row pairing the
\* last left line with "" (right text empty).
C5_OneEmptyAmended ==
  (Done /\ OneEmpty) =>
    IF leftText = <<>>
    THEN \E k \in 1..Len(rows) :
           /\ HasLeftNumber(rows[k]) /\ rows[k].leftNumber = 1 /\ rows[k].left = <<>>
           /\ \A h \in 1..Len(rows) : h # k => rows[h].status = "added"
           /\ IF EmptyAt(rightLines) # {}
              THEN rows[k].status = "same" /\ rows[k].rightNumber = Last(EmptyAt(rightLines))
              ELSE rows[k].status = "changed" /\ k = 1 /\ rows[k].right = rightLines[1]
    ELSE \E k \in 1..Len(rows) :
           /\ HasRightNumber(rows[k]) /\ rows[k].rightNumber = 1 /\ rows[k].right = <<>>
           /\ \A h \in 1..Len(rows) : h # k => rows[h].status = "removed"
           /\ IF EmptyAt(leftLines) # {}
              THEN rows[k].status = "same" /\ rows[k].leftNumber = Last(EmptyAt(leftLines))
              ELSE rows[k].status = "changed" /\ k = Len(rows)
                   /\ rows[k].left = leftLines[Len(leftLines)]

C5_Witness ==
  /\ Done
  /\ rightText = <<>>
  /\ Len(leftLines) >= 2
  /\ EmptyAt(leftLines) = {}
  /\ rows[Len(rows)].status = "changed"

----------------------------------------------------------------------------
\* a content is a string when it is a sequence of characters
IsString(x) == x \in Seq(Chars)

\* a row holds a content on a side when the field is there and is a string
HasLeftContent(r) == "left" \in DOMAIN r /\ IsString(r.left)
HasRightContent(r) == "right" \in DOMAIN r /\ IsString(r.right)

\* C6 as stated: an added row has no left content and no leftNumber, and has
\* a right content and a rightNumber; a removed row the other way round.
C6_OneSidedAsStated ==
  Done =>
    \A k \in 1..Len(rows) :
      /\ rows[k].status = "added" =>
           /\ ~HasLeftContent(rows[k]) /\ ~HasLeftNumber(rows[k])
           /\ HasRightContent(rows[k]) /\ HasRightNumber(rows[k])
      /\ rows[k].status = "removed" =>
           /\ ~HasRightContent(rows[k]) /\ ~HasRightNumber(rows[k])
           /\ HasLeftContent(rows[k]) /\ HasLeftNumber(rows[k])

\* C6 (amended): an added row has no leftNumber, its left content is the
\* empty string (a string, as for an empty line, not an absent value), and it
\* has a rightNumber with the right line of that number as right content; a
\* removed row has no rightNumber, the empty string as right content, and a
\* leftNumber with the left line of that number as left content.
C6_OneSidedAmended ==
  Done =>
    \A k \in 1..Len(rows) :
      /\ rows[k].status = "added" =>
           /\ ~HasLeftNumber(rows[k])
           /\ HasLeftContent(rows[k]) /\ rows[k].left = <<>>
           /\ HasRightNumber(rows[k])
           /\ HasRightContent(rows[k]) /\ rows[k].right = rightLines[rows[k].rightNumber]
      /\ rows[k].status = "removed" =>
           /\ ~HasRightNumber(rows[k])
           /\ HasRightContent(rows[k]) /\ rows[k].right = <<>>
           /\ HasLeftNumber(rows[k])
           /\ HasLeftContent(rows[k]) /\ rows[k].left = leftLines[rows[k].leftNumber]

C6_Witness ==
  /\ Done
  /\ \E h, k \in 1..Len(rows) :
       /\ rows[h].status = "added" /\ rows[h].right # <<>>
       /\ rows[k].status = "removed" /\ rows[k].left # <<>>

\* C7: a same row has both contents, equal, and both line numbers; a changed
\* row has both contents and both line numbers; each content is the line of
\* its side that the number names.
C7_TwoSided ==
  Done =>
    \A k \in 1..Len(rows) :
      rows[k].status \in {"same", "changed"} =>
        /\ HasLeftNumber(rows[k]) /\ HasRightNumber(rows[k])
        /\ HasLeftContent(rows[k]) /\ HasRightContent(rows[k])
        /\ rows[k].left = leftLines[rows[k].leftNumber]
        /\ rows[k].right = rightLines[rows[k].rightNumber]
        /\ rows[k].status = "same" => rows[k].left = rows[k].right

C7_Witness ==
  /\ Done
  /\ \E h, k \in 1..Len(rows) :
       /\ rows[h].status = "same" /\ rows[h].leftNumber # rows[h].rightNumber
       /\ rows[k].status = "changed" /\ rows[k].left # rows[k].right

----------------------------------------------------------------------------
\* the operations that toRows merges with the operation after them
MergeAt == {k \in 1..(Len(ops) - 1) : ops[k].type = "removed" /\ ops[k + 1].type = "added"}

\* the row an operation ends up in: one row less for every merge before it
RowOf(k) == k - Cardinality({h \in MergeAt : h < k})

\* C8: every removed operation immediately followed by an added operation is
\* merged with it into one changed row (left the removed line, right the
\* added line), whatever the two lines are; every other operation is a row
\* of its own type; so removed, added, added gives changed then added.
C8_RowPairing ==
  Done =>
    /\ Len(rows) = Len(ops) - Cardinality(MergeAt)
    /\ \A k \in 1..Len(ops) :
         IF k \in MergeAt
         THEN /\ rows[RowOf(k)].status = "changed"
              /\ rows[RowOf(k)].left = ops[k].line
              /\ rows[RowOf(k)].right = ops[k + 1].line
              /\ RowOf(k + 1) = RowOf(k)
         ELSE IF (k - 1) \in MergeAt
         THEN rows[RowOf(k)].status = "changed"
         ELSE /\ rows[RowOf(k)].status = ops[k].type
              /\ ops[k].type \in {"same", "removed"} => rows[RowOf(k)].left = ops[k].line
              /\ ops[k].type \in {"same", "added"} => rows[RowOf(k)].right = ops[k].line

C8_Witness ==
  /\ Done
  /\ \E k \in 1..(Len(ops) - 2) :
       /\ ops[k].type = "removed" /\ ops[k + 1].type = "added" /\ ops[k + 2].type = "added"
       /\ rows[RowOf(k)].status = "changed"
       /\ rows[RowOf(k) + 1].status = "added"
       /\ rows[RowOf(k) + 1].right = ops[k + 2].line

----------------------------------------------------------------------------
\* C9: the empty text against the empty text gives exactly one row: same,
\* both contents the empty string, both numbers 1; and no diff is ever an
\* empty row sequence.
C9_EmptyEmpty ==
  Done =>
    /\ Len(rows) >= 1
    /\ (leftText = <<>> /\ rightText = <<>>) =>
         rows = <<[left |-> <<>>, right |-> <<>>, status |-> "same",
                   leftNumber |-> 1, rightNumber |-> 1]>>

C9_Witness == Done /\ leftText = <<>> /\ rightText = <<>> /\ Len(rows) = 1

----------------------------------------------------------------------------
\* a is a subsequence of b
RECURSIVE IsSubseq(_, _)
IsSubseq(a, b) ==
  IF a = <<>> THEN TRUE
  ELSE IF b = <<>> THEN FALSE
  ELSE IF Head(a) = Head(b) THEN IsSubseq(Tail(a), Tail(b))
  ELSE IsSubseq(a, Tail(b))

\* the example of the specification: "a\nb" against "a\nx\nb"
PureAdditionExample ==
  LineDiff(<<"a", NL, "b">>, <<"a", NL, "x", NL, "b">>) =
    << [left |-> <<"a">>, right |-> <<"a">>, status |-> "same",
        leftNumber |-> 1, rightNumber |-> 1],
       [left |-> <<>>, right |-> <<"x">>, status |-> "added", rightNumber |-> 2],
       [left |-> <<"b">>, right |-> <<"b">>, status |-> "same",
        leftNumber |-> 2, rightNumber |-> 3] >>

\* C10: when the left lines are a subsequence of the right lines the rows are
\* same and added rows only, with |rightLines| - |leftLines| added rows; and
\* "a\nb" against "a\nx\nb" gives same a (1/1), added x (2), same b (2/3).
C10_PureAddition ==
  /\ PureAdditionExample
  /\ (Done /\ IsSubseq(leftLines, rightLines)) =>
       /\ \A k \in 1..Len(rows) : rows[k].status \in {"same", "added"}
       /\ Count(rows, "added") = Len(rightLines) - Len(leftLines)
       /\ Count(rows, "same") = Len(leftLines)

C10_Witness ==
  /\ Done
  /\ IsSubseq(leftLines, rightLines)
  /\ Len(leftLines) >= 2
  /\ Count(rows, "added") >= 1
  /\ rows[1].status = "same"
  /\ rows[Len(rows)].status = "same"

----------------------------------------------------------------------------
\* the example of the specification: "a\nb\nc" against "a\nc"
PureRemovalExample ==
  LineDiff(<<"a", NL, "b", NL, "c">>, <<"a", NL, "c">>) =
    << [left |-> <<"a">>, right |-> <<"a">>, status |-> "same",
        leftNumber |-> 1, rightNumber |-> 1],
       [left |-> <<"b">>, right |-> <<>>, status |-> "removed", leftNumber |-> 2],
       [left |-> <<"c">>, right |-> <<"c">>, status |-> "same",
        leftNumber |-> 3, rightNumber |-> 2] >>

\* C11: when the right lines are a subsequence of the left lines the rows are
\* same and removed rows only, with |leftLines| - |rightLines| removed rows;
\* and "a\nb\nc" against "a\nc" gives same a, removed b (2), same c (3/2).
C11_PureRemoval ==
  /\ PureRemovalExample
  /\ (Done /\ IsSubseq(rightLines, leftLines)) =>
       /\ \A k \in 1..Len(rows) : rows[k].status \in {"same", "removed"}
       /\ Count(rows, "removed") = Len(leftLines) - Len(rightLines)
       /\ Count(rows, "same") = Len(rightLines)

C11_Witness ==
  /\ Done
  /\ IsSubseq(rightLines, leftLines)
  /\ Len(rightLines) >= 2
  /\ Count(rows, "removed") >= 1
  /\ rows[1].status = "same"
  /\ rows[Len(rows)].status = "same"

----------------------------------------------------------------------------
\* the lines of ls at the indices S, in order
RECURSIVE Pick(_, _)
Pick(ls, S) ==
  IF ls = <<>> THEN <<>>
  ELSE Pick(SubSeq(ls, 1, Len(ls) - 1), S \ {Len(ls)})
         \o (IF Len(ls) \in S THEN <<ls[Len(ls)]>> ELSE <<>>)

\* the length of a longest common subsequence, from the definition: the most
\* lines of a that can be picked so that they are a subsequence of b
LcsLength(a, b) ==
  LET sizes == {Cardinality(S) : S \in {T \in SUBSET (1..Len(a)) : IsSubseq(Pick(a, T), b)}}
  IN CHOOSE n \in sizes : \A k \in sizes : k <= n

\* C19: after the fill, dp[i][j] is the length of a longest common
\* subsequence of the first i left lines and the first j right lines, for
\* all 0 <= i <= m and 0 <= j <= n; row 0 and column 0 are 0.
C19_TableIsLcs ==
  Done =>
    /\ DOMAIN dp = 0..Len(leftLines)
    /\ \A i \in 0..Len(leftLines) :
         /\ DOMAIN dp[i] = 0..Len(rightLines)
         /\ \A j \in 0..Len(rightLines) :
              /\ dp[i][j] = LcsLength(SubSeq(leftLines, 1, i), SubSeq(rightLines, 1, j))
              /\ (i = 0 \/ j = 0) => dp[i][j] = 0

C19_Witness ==
  /\ Done
  /\ Len(leftLines) >= 2
  /\ Len(rightLines) >= 2
  /\ dp[Len(leftLines)][Len(rightLines)] = 2
  /\ leftLines # rightLines
  /\ dp[1][1] = 0

----------------------------------------------------------------------------
\* the runs of several removed operations followed by an added operation:
\* <<a, b>> when ops[a..b] are removed, a < b, no removed operation precedes
\* ops[a], and ops[b + 1] is added
RemovedRuns ==
  {ab \in (1..Len(ops)) \X (1..Len(ops)) :
     /\ ab[1] < ab[2]
     /\ ab[2] + 1 <= Len(ops)
     /\ \A k \in ab[1]..ab[2] : ops[k].type = "removed"
     /\ ~(ab[1] > 1 /\ ops[ab[1] - 1].type = "removed")
     /\ ops[ab[2] + 1].type = "added"}

\* the number of the left line that operation k consumes
LeftLineOf(k) == Cardinality({h \in 1..k : ops[h].type # "added"})

\* C20 as stated: the changed row of such a run pairs the first removed line
\* of the run with the first added line.
C20_FirstRemovedAsStated ==
  Done =>
    \A ab \in RemovedRuns :
      /\ rows[RowOf(ab[1])].status = "changed"
      /\ rows[RowOf(ab[1])].leftNumber = LeftLineOf(ab[1])
      /\ rows[RowOf(ab[1])].right = ops[ab[2] + 1].line

\* C20 (amended): the changed row of such a run pairs the last removed line
\* of the run with the first added line; the removed lines before it are
\* removed rows of their own.
C20_LastRemovedAmended ==
  Done =>
    \A ab \in RemovedRuns :
      /\ rows[RowOf(ab[2])].status = "changed"
      /\ rows[RowOf(ab[2])].left = ops[ab[2]].line
      /\ rows[RowOf(ab[2])].leftNumber = LeftLineOf(ab[2])
      /\ rows[RowOf(ab[2])].right = ops[ab[2] + 1].line
      /\ \A k \in ab[1]..(ab[2] - 1) :
           /\ rows[RowOf(k)].status = "removed"
           /\ rows[RowOf(k)].left = ops[k].line

C20_Witness ==
  /\ Done
  /\ \E ab \in RemovedRuns :
       /\ ops[ab[1]].line # ops[ab[2]].line
       /\ ab[2] + 2 <= Len(ops)
       /\ ops[ab[2] + 2].type = "added"

----------------------------------------------------------------------------
(* Two one-line texts, and the words of a changed line *)

WordDone == phase = "wordDone"

VersionOld == <<"v", "e", "r", "s", "i", "o", "n", ":", " ", "1", ".", "0", ".", "0">>

VersionNew == <<"v", "e", "r", "s", "i", "o", "n", ":", " ", "1", ".", "1", ".", "0">>

VersionWord == <<"v", "e", "r", "s", "i", "o", "n", ":">>

\* the pair of lines that the claim names
VersionExample ==
  /\ LineDiff(VersionOld, VersionNew) =
       << [left |-> VersionOld, right |-> VersionNew, status |-> "changed",
           leftNumber |-> 1, rightNumber |-> 1] >>
  /\ WordDiff(VersionOld, VersionNew).leftParts =
       << Part(VersionWord, "same"), Part(<<"1", ".", "0", ".", "0">>, "removed") >>
  /\ WordDiff(VersionOld, VersionNew).rightParts =
       << Part(VersionWord, "same"), Part(<<"1", ".", "1", ".", "0">>, "added") >>

\* two words on each side as in the named pair: the first is shared, the
\* second words differ from each other and from the shared word
SharedThenDiffering ==
  /\ Len(leftWords) = 2
  /\ Len(rightWords) = 2
  /\ leftWords[1] = rightWords[1]
  /\ leftWords[2] # rightWords[2]
  /\ leftWords[2] # leftWords[1]
  /\ rightWords[2] # rightWords[1]

\* C12: two different one-line texts give exactly one row, changed, with the
\* two texts as its sides and both line numbers 1; and on a pair of lines like
\* "version: 1.0.0" / "version: 1.1.0" the word diff marks the shared word
\* same on both sides, the differing left word removed and the differing
\* right word added.
C12_SingleLineChange ==
  /\ VersionExample
  /\ (WordDone /\ leftLine # rightLine) =>
       LineDiff(leftLine, rightLine) =
         << [left |-> leftLine, right |-> rightLine, status |-> "changed",
             leftNumber |-> 1, rightNumber |-> 1] >>
  /\ (WordDone /\ SharedThenDiffering) =>
       /\ wordDiff.leftParts =
            << Part(leftWords[1], "same"), Part(leftWords[2], "removed") >>
       /\ wordDiff.rightParts =
            << Part(rightWords[1], "same"), Part(rightWords[2], "added") >>

C12_Witness ==
  /\ WordDone
  /\ SharedThenDiffering
  /\ Len(LineDiff(leftLine, rightLine)) = 1
  /\ wordDiff.leftParts[2].kind = "removed"
  /\ wordDiff.rightParts[2].kind = "added"

----------------------------------------------------------------------------
(* The words of a line, from the line itself, and what the parts render *)

\* the maximal runs of characters of s that are not whitespace, as <<first, last>>
WordSpans(s) ==
  {ab \in (1..Len(s)) \X (1..Len(s)) :
     /\ ab[1] <= ab[2]
     /\ \A k \in ab[1]..ab[2] : ~IsSpace(s[k])
     /\ ab[1] = 1 \/ IsSpace(s[ab[1] - 1])
     /\ ab[2] = Len(s) \/ IsSpace(s[ab[2] + 1])}

\* the k-th run from the left
SpanAt(s, k) ==
  CHOOSE ab \in WordSpans(s) : Cardinality({cd \in WordSpans(s) : cd[1] < ab[1]}) = k - 1

WordsOf(s) ==
  [k \in 1..Cardinality(WordSpans(s)) |-> SubSeq(s, SpanAt(s, k)[1], SpanAt(s, k)[2])]

\* the positions that stay when s is trimmed and every whitespace run is
\* collapsed: the characters of words, and the last character of a run that
\* stands between two words
KeptAt(s) ==
  {k \in 1..Len(s) :
     \/ ~IsSpace(s[k])
     \/ /\ k < Len(s)
        /\ ~IsSpace(s[k + 1])
        /\ \E h \in 1..(k - 1) : ~IsSpace(s[h])}

\* s trimmed, with each whitespace run collapsed to one space
Collapsed(s) ==
  LET kept == Pick(s, KeptAt(s))
  IN [k \in 1..Len(kept) |-> IF IsSpace(kept[k]) THEN " " ELSE kept[k]]

PartTexts(parts) == [k \in 1..Len(parts) |-> parts[k].text]

\* C13: the texts of leftParts, in order and whatever their kind, are the
\* whitespace-separated words of the left line in their original order, and
\* with the single space that rendering puts between parts they give the
\* left line trimmed and with each whitespace run collapsed to one space; the
\* same for rightParts and the right line.
C13_OrderPreserved ==
  WordDone =>
    /\ PartTexts(wordDiff.leftParts) = WordsOf(leftLine)
    /\ PartTexts(wordDiff.rightParts) = WordsOf(rightLine)
    /\ RenderText(wordDiff.leftParts) = Collapsed(leftLine)
    /\ RenderText(wordDiff.rightParts) = Collapsed(rightLine)

C13_Witness ==
  /\ WordDone
  /\ Len(wordDiff.leftParts) = 2
  /\ Len(wordDiff.rightParts) = 2
  /\ Len(RenderText(wordDiff.leftParts)) < Len(leftLine)
  /\ wordDiff.leftParts[1].kind # wordDiff.leftParts[2].kind
  /\ wordDiff.rightParts[1].kind # wordDiff.rightParts[2].kind

----------------------------------------------------------------------------
(* Tokenisation: the leading whitespace and the shape of the parts *)

\* p is the maximal whitespace run that starts s
IsLeadingRun(p, s) ==
  /\ Len(p) <= Len(s)
  /\ p = SubSeq(s, 1, Len(p))
  /\ \A k \in 1..Len(p) : IsSpace(p[k])
  /\ Len(p) = Len(s) \/ ~IsSpace(s[Len(p) + 1])

\* every part is a word: not empty, no whitespace in it
ProperWords(parts) ==
  \A k \in 1..Len(parts) :
    /\ parts[k].text # <<>>
    /\ \A h \in 1..Len(parts[k].text) : ~IsSpace(parts[k].text[h])

Blank(s) == \A k \in 1..Len(s) : IsSpace(s[k])

\* the characters of the parts, without the spaces between them
RECURSIVE PartChars(_)
PartChars(parts) ==
  IF parts = <<>> THEN <<>>
  ELSE parts[1].text \o PartChars(SubSeq(parts, 2, Len(parts)))

\* C14: leadingLeft / leadingRight are the maximal leading whitespace run of
\* their line and no part carries it; no part text is empty or contains
\* whitespace; an empty or whitespace-only line has no parts on its side.
C14_Tokenisation ==
  WordDone =>
    /\ IsLeadingRun(wordDiff.leadingLeft, leftLine)
    /\ IsLeadingRun(wordDiff.leadingRight, rightLine)
    /\ ProperWords(wordDiff.leftParts)
    /\ ProperWords(wordDiff.rightParts)
    /\ Len(PartChars(wordDiff.leftParts)) = Cardinality({k \in 1..Len(leftLine) : ~IsSpace(leftLine[k])})
    /\ Len(PartChars(wordDiff.rightParts)) = Cardinality({k \in 1..Len(rightLine) : ~IsSpace(rightLine[k])})
    /\ Blank(leftLine) => wordDiff.leftParts = <<>>
    /\ Blank(rightLine) => wordDiff.rightParts = <<>>

C14_Witness ==
  /\ WordDone
  /\ Len(wordDiff.leadingLeft) = 2
  /\ Len(wordDiff.leftParts) = 1
  /\ Blank(rightLine)
  /\ Len(rightLine) > 0
  /\ wordDiff.leadingRight = rightLine
  /\ wordDiff.rightParts = <<>>

----------------------------------------------------------------------------
(* The rows the page shows *)

\* the positions of the rows of all that are not same
ChangedAt(all) == {k \in 1..Len(all) : all[k].status # "same"}

\* C15: with onlyChanges the rows shown are exactly the rows of the full
\* sequence whose status is not same, in the same order and each one the
\* unchanged row (contents, status, line numbers); without it they are the
\* full sequence.
C15_FilterCorrect ==
  /\ onlyChanges => diffRows = Pick(allRows, ChangedAt(allRows))
  /\ ~onlyChanges => diffRows = allRows

C15_Witness ==
  /\ onlyChanges
  /\ Len(diffRows) = 2
  /\ Len(allRows) = 4
  /\ allRows[1].status = "same"
  /\ allRows[3].status = "same"
  /\ diffRows[1] = allRows[2]
  /\ diffRows[2] = allRows[4]

\* C16: a step that changes the "changes only" or the "word highlight"
\* switch leaves leftText, rightText and the full row sequence as they were.
C16_TogglesKeepInputs ==
  [][(onlyChanges' # onlyChanges \/ showWordDiff' # showWordDiff)
       => (leftText' = leftText /\ rightText' = rightText /\ allRows' = allRows)]_vars

\* both switches have been turned, the rows shown are fewer than the rows
\* computed, and a changed row is shown as a plain line
C16_Witness ==
  /\ onlyChanges
  /\ ~showWordDiff
  /\ Len(diffRows) < Len(allRows)
  /\ \E k \in 1..Len(diffRows) :
       /\ diffRows[k].status = "changed"
       /\ LeftCell(diffRows[k]) = diffRows[k].left
  /\ allRows = LineDiff(leftText, rightText)

----------------------------------------------------------------------------
(* The loops end and read the table inside its bounds *)

InLoop == phase \in {"collect", "wordLoop"}

\* the lengths m and n of the loop that is running
LoopM == IF phase = "collect" THEN Len(leftLines) ELSE Len(leftWords)

LoopN == IF phase = "collect" THEN Len(rightLines) ELSE Len(rightWords)

\* the result of buildLineDiff and of buildWordDiff, computed in one piece
Returned ==
  /\ phase = "done" => rows = LineDiff(leftText, rightText)
  /\ phase = "wordDone" => wordDiff = WordDiff(leftLine, rightLine)

\* C17: in the backtracking loop of buildLineDiff and in that of
\* buildWordDiff, on every input, each iteration makes i + j strictly smaller
\* and keeps both at 0 or more, every dp cell read lies within 0..m and
\* 0..n, at most m + n iterations are made, and the loop is left with the
\* result.
C17_Totality ==
  /\ [](InLoop => /\ \A c \in reads : c[1] \in 0..LoopM /\ c[2] \in 0..LoopN
                  /\ curI \in 0..LoopM
                  /\ curJ \in 0..LoopN
                  /\ iter + curI + curJ <= LoopM + LoopN)
  /\ [][iter' = iter + 1 => (curI' + curJ' < curI + curJ /\ curI' >= 0 /\ curJ' >= 0)]_vars
  /\ []Returned

C17_Witness ==
  /\ phase = "done"
  /\ leftText = <<>>
  /\ rightText = <<"a", NL, "b">>
  /\ iter = 3
  /\ Len(rows) = 2

----------------------------------------------------------------------------
(* The rule of one backtracking step *)

\* an iteration of the loop of collectOps
CollectIteration == phase = "collect" /\ iter' = iter + 1

\* the operation that the iteration pushed
Pushed == ops'[Len(ops')]

EmitsAndMoves(type, line, i, j) ==
  /\ ops' = Append(ops, [type |-> type, line |-> line])
  /\ curI' = i
  /\ curJ' = j

\* the two neighbours of (i, j) in the table hold the same value
Tie == curI > 0 /\ curJ > 0 /\ dp[curI][curJ - 1] = dp[curI - 1][curJ]

\* C18: the backtrack starts at (m, n); a step at (i, j) with i > 0, j > 0
\* and equal lines emits same and decreases both indices; otherwise, if
\* j > 0 and (i = 0 or dp[i][j-1] >= dp[i-1][j]), it emits added with the
\* right line and decreases j; otherwise it emits removed with the left line
\* and decreases i.  A step on a tie of dp[i][j-1] and dp[i-1][j] is added,
\* never removed.
C18_BacktrackRule ==
  /\ []((phase = "collect" /\ iter = 0) =>
          (curI = Len(leftLines) /\ curJ = Len(rightLines) /\ ops = <<>>))
  /\ [][CollectIteration =>
          IF curI > 0 /\ curJ > 0 /\ leftLines[curI] = rightLines[curJ]
            THEN EmitsAndMoves("same", leftLines[curI], curI - 1, curJ - 1)
          ELSE IF curJ > 0 /\ (curI = 0 \/ dp[curI][curJ - 1] >= dp[curI - 1][curJ])
            THEN EmitsAndMoves("added", rightLines[curJ], curI, curJ - 1)
          ELSE EmitsAndMoves("removed", leftLines[curI], curI - 1, curJ)]_vars
  /\ [][(CollectIteration /\ Tie /\ leftLines[curI] # rightLines[curJ])
          => Pushed.type = "added"]_vars

\* a backtrack that met a tie on different lines and has also emitted a
\* removed and a same operation
C18_Witness ==
  /\ phase = "collect"
  /\ Len(leftLines) = 2
  /\ Len(rightLines) = 2
  /\ leftLines[2] # rightLines[2]
  /\ dp[2][1] = dp[1][2]
  /\ iter = 3
  /\ ops[1].type = "added"
  /\ ops[2].type = "removed"
  /\ ops[3].type = "same"

----------------------------------------------------------------------------
(* The rows on the page are those of the texts on the page *)

\* buildLineDiff on the texts as they are now
FreshRows == LineDiff(leftText, rightText)

\* C21: after any sequence of edits, Clear presses, timers and switch
\* changes, the rows computed are buildLineDiff of the current leftText and
\* rightText, and the rows shown are their filter by the current onlyChanges.
C21_NoStaleDiff ==
  /\ allRows = FreshRows
  /\ diffRows = IF onlyChanges THEN Pick(FreshRows, ChangedAt(FreshRows)) ELSE FreshRows

\* the left text was cleared, the right text holds two lines, the filter is
\* on and hides a row
C21_Witness ==
  /\ clearState = "left"
  /\ leftText = <<>>
  /\ Len(rightText) = PageMaxLen
  /\ onlyChanges
  /\ ~showWordDiff
  /\ Len(FreshRows) = 2
  /\ Len(diffRows) = 1
  /\ diffRows[1].status = "added"

----------------------------------------------------------------------------
(* A changed row is never two equal lines *)

\* C23: a removed operation and the added operation right after it never
\* carry equal lines, so the left and right contents of every changed row
\* differ.
C23_ChangedDiffers ==
  Done =>
    /\ \A k \in MergeAt : ops[k].line # ops[k + 1].line
    /\ \A k \in RowsWith("changed") : rows[k].left # rows[k].right

\* a changed row whose two lines both occur on the other side as well
C23_Witness ==
  /\ Done
  /\ \E k \in RowsWith("changed") :
       /\ \E h \in 1..Len(rightLines) : rightLines[h] = rows[k].left
       /\ \E h \in 1..Len(leftLines) : leftLines[h] = rows[k].right

----------------------------------------------------------------------------
(* The shape of a run of rows that are not same *)

\* the positions of the changed rows between rows a and b
ChangedBetween(a, b) == {k \in (a + 1)..(b - 1) : rows[k].status = "changed"}

\* rows a and b are same rows with no same row between them
ConsecutiveSame(a, b) ==
  /\ a < b
  /\ rows[a].status = "same"
  /\ rows[b].status = "same"
  /\ \A k \in (a + 1)..(b - 1) : rows[k].status # "same"

\* C24: in the operations of collectOps an added operation is never
\* directly followed by a removed one; so in the rows an added or changed row
\* is followed by an added row, a same row or nothing (a run of non-same rows
\* is removed*, at most one changed, added*), and between two consecutive
\* same rows there is at most one changed row.
C24_RunShape ==
  Done =>
    /\ \A k \in 1..(Len(ops) - 1) : ~(ops[k].type = "added" /\ ops[k + 1].type = "removed")
    /\ \A k \in 1..(Len(rows) - 1) :
         rows[k].status \in {"added", "changed"} => rows[k + 1].status \in {"added", "same"}
    /\ \A a, b \in 1..Len(rows) : ConsecutiveSame(a, b) => Cardinality(ChangedBetween(a, b)) <= 1
    /\ Cardinality({k \in 1..Len(rows) : rows[k].status = "changed"
                      /\ \A h \in 1..Len(rows) : rows[h].status # "same"}) <= 1

\* a run of the full shape: removed, changed, added
C24_Witness ==
  /\ Done
  /\ Len(rows) = 3
  /\ rows[1].status = "removed"
  /\ rows[2].status = "changed"
  /\ rows[3].status = "added"

----------------------------------------------------------------------------
(* The alignment keeps as many lines as can be kept *)

\* C25: the number of same rows is dp[m][n], which is the length of a
\* longest common subsequence of the left and the right lines, and the
\* number of rows is m + n - LCS - (number of changed rows).
C25_Maximality ==
  Done =>
    /\ Count(rows, "same") = dp[Len(leftLines)][Len(rightLines)]
    /\ Count(rows, "same") = LcsLength(leftLines, rightLines)
    /\ Len(rows) = Len(leftLines) + Len(rightLines)
                     - LcsLength(leftLines, rightLines) - Count(rows, "changed")

\* two lines are kept and one is changed, the first row is not a kept line
\* and the texts differ in their number of lines
C25_Witness ==
  /\ Done
  /\ Count(rows, "same") = 2
  /\ Count(rows, "changed") = 1
  /\ Len(leftLines) # Len(rightLines)
  /\ rows[1].status # "same"

----------------------------------------------------------------------------
(* The rows give back the two line sequences *)

\* the rows that have a leftNumber, and those that have a rightNumber
LeftRows == SelectSeq(rows, HasLeftNumber)

RightRows == SelectSeq(rows, HasRightNumber)

\* C26: the left contents of the rows that have a leftNumber, in row order,
\* are the left lines, the row with leftNumber k carrying left line k; the
\* right contents of the rows that have a rightNumber are the right lines in
\* the same way: no line is dropped, duplicated or reordered.
C26_Reconstruction ==
  Done =>
    /\ [k \in 1..Len(LeftRows) |-> LeftRows[k].left] = leftLines
    /\ \A k \in 1..Len(LeftRows) : LeftRows[k].leftNumber = k
    /\ [k \in 1..Len(RightRows) |-> RightRows[k].right] = rightLines
    /\ \A k \in 1..Len(RightRows) : RightRows[k].rightNumber = k

\* rows of all four kinds, on texts whose lines are not all different
C26_Witness ==
  /\ Done
  /\ {rows[k].status : k \in 1..Len(rows)} = {"same", "changed", "added", "removed"}
  /\ Len(LeftRows) = 3
  /\ Len(RightRows) = 3

----------------------------------------------------------------------------
(* The kinds of the word parts *)

KindsOf(parts) == {parts[k].kind : k \in 1..Len(parts)}

\* the texts of the parts of kind same, in order
SameTexts(parts) == PartTexts(SelectSeq(parts, LAMBDA wp : wp.kind = "same"))

\* C27: leftParts holds only same and removed parts, rightParts only same
\* and added parts; the same parts of the two sides are the identical word
\* sequence, and its length is the length of a longest common subsequence
\* of the two word sequences.
C27_PartKinds ==
  WordDone =>
    /\ KindsOf(wordDiff.leftParts) \subseteq {"same", "removed"}
    /\ KindsOf(wordDiff.rightParts) \subseteq {"same", "added"}
    /\ SameTexts(wordDiff.leftParts) = SameTexts(wordDiff.rightParts)
    /\ Len(SameTexts(wordDiff.leftParts)) = LcsLength(WordsOf(leftLine), WordsOf(rightLine))

\* a shared word between a removed and an added word
C27_Witness ==
  /\ WordDone
  /\ KindsOf(wordDiff.leftParts) = {"same", "removed"}
  /\ KindsOf(wordDiff.rightParts) = {"same", "added"}
  /\ Len(wordDiff.leftParts) = 2
  /\ Len(wordDiff.rightParts) = 2
  /\ wordDiff.leftParts[2].kind = "same"
  /\ wordDiff.rightParts[1].kind = "same"

----------------------------------------------------------------------------
(* The "Cleared" indicator and the timers of Clear *)

\* The timers all wait 900 ms, so they fire in the order they were set and
\* the timer of the latest Clear is the last of the pending ones: it is
\* pending exactly when any timer is.
LatestClear == timers[Len(timers)]

\* C28: the indicator set by a Clear is reset only by the timer of that same
\* Clear, never by a timer left over from an earlier Clear: as long as the
\* timer of the latest Clear is pending, the indicator shows that Clear.
C28_OwnTimerOnly == timers # <<>> => clearState = LatestClear

----------------------------------------------------------------------------
(* The ids of two paths of one tree *)

\* C22: two different paths that can occur in the same JSON tree, the empty
\* path of the root included, get different ids from pathToId.
C22_UniqueIds ==
  (phase = "ids" /\ pathA # pathB /\ SameTree(pathA, pathB)) => idA # idB

----------------------------------------------------------------------------
(* The keys of the rendered rows *)

DistinctKeys(shown) ==
  \A a, b \in 1..Len(shown) : a # b => RowKey(shown[a]) # RowKey(shown[b])

\* C30: the keys of the rows that DiffPage renders are pairwise distinct,
\* with the changes-only filter and without it.
C30_DistinctKeys ==
  /\ DistinctKeys(diffRows)
  /\ DistinctKeys(allRows)

\* the filter is on and the rows shown include two added rows, whose keys
\* differ only in the right number, and a changed row
C30_Witness ==
  /\ onlyChanges
  /\ Len(diffRows) < Len(allRows)
  /\ \E a, b, c \in 1..Len(diffRows) :
       /\ a # b
       /\ diffRows[a].status = "added"
       /\ diffRows[b].status = "added"
       /\ diffRows[c].status = "changed"

----------------------------------------------------------------------------
(* C29: the next-run simulator of the cron tool always terminates:
   getNextExecutions only runs on a field that validateExpression accepted
   for the platform; a loop of parseField only runs with a step of at least
   1, also on a field that resolveJenkinsH rewrote, and pushes no more values
   than 0..def.max holds; the scan inspects at most MaxIterations minutes and
   returns at most NextCount instants *)

C29_SimulatorTerminates ==
  /\ phase \in {"expand", "scan"} => validation = "valid"
  /\ phase \in {"cronDone"} /\ validation # "valid" => results = <<>> /\ scanI = 0 /\ vals = <<>>
  /\ phase = "expand" =>
       /\ loopStep >= 1
       /\ loopI >= 0
       /\ loopEnd <= fieldDef.max
       /\ Len(vals) <= loopEnd + 1
  /\ scanI <= MaxIterations
  /\ Len(results) <= NextCount
  /\ Len(results) <= scanI

\* a jenkins field H/2 was accepted, rewritten with the hash seed, expanded by
\* the loop of parseField and scanned to the end
C29_Witness ==
  /\ phase = "cronDone"
  /\ platform = "jenkins"
  /\ part = <<"H", "/", "2">>
  /\ validation = "valid"
  /\ resolvedPart = <<"1", "/", "2">>
  /\ Len(vals) > 1
  /\ scanI = MaxIterations
  /\ results # <<>>

====
